---- MODULE Spec2Model ----
(***************************************************************************)
(* velar-ui/cli: the retrying HTTP client (HttpService) and the batch file  *)
(* writer of ComponentService (applyFileBatch).                             *)
(*                                                                          *)
(* SpecFetch models one call of HttpService.fetch / fetchJson / fetchText.  *)
(* SpecBatch models one call of ComponentService.applyFileBatch, and the    *)
(* same call made once more after it returned.                              *)
(* SpecAdd models one call of ComponentService.addComponents, which runs    *)
(* applyFileBatch once per component; SpecAddMocked is the same call with   *)
(* process.exit replaced by a function that throws.                         *)
(* SpecRegistry models one call of RegistryService.fetchComponent, which    *)
(* calls HttpService three times. SpecDelay applies calculateDelay to the   *)
(* attempts of one call for configurations with fractional factors.         *)
(***************************************************************************)
EXTENDS Integers, Sequences, FiniteSets, TLC

VARIABLES
    \* ---- HttpService ----
    op,            \* the public operation called: "fetch", "fetchJson", "fetchText"
    retryOptions,  \* the resolved retry options of the call (HttpService.ts:105-116)
    attempt,       \* the loop variable of fetch (HttpService.ts:120)
    pc,            \* position of the call
    requests,      \* number of physical requests issued (calls of global fetch)
    backend,       \* what the backend did on each physical request, in order
    delay,         \* the delay computed for the pending sleep
    delays,        \* the delays slept so far, in order
    response,      \* status of the response fetch returned, NoStatus if none
    lastError,     \* the variable lastError of fetch (HttpService.ts:118)
    thrown,        \* the error fetch threw, NoError if none
    result,        \* what the public operation gave its caller
    elapsed,       \* time since fetchWithTimeout armed the timer of the request in flight
    waits,         \* for each request the timer aborted, the time it had been in flight
    \* ---- ComponentService.applyFileBatch ----
    plannedFiles,  \* the batch: a sequence of planned files
    destFs,        \* disk: content at each destination path
    tempFs,        \* disk: content at each destination path + ".velar-tmp"
    backupFs,      \* disk: content at the backup path of each destination
    preFs,         \* destFs as it was when applyFileBatch was called
    tempFiles,     \* the local list tempFiles (part_007:259)
    backupTargets, \* the local list backupTargets (part_007:260)
    bpc,           \* position of applyFileBatch
    idx,           \* index of the loop the call is in
    failedIn,      \* the phase whose step threw, "none" if none
    failedAt,      \* the index of the planned file whose step threw, 0 if none
    moved,         \* number of planned files the commit loop moved successfully
    rollbackFault, \* TRUE once a step of the rollback itself has thrown
    calls,         \* how many times applyFileBatch was called with this plan
    firstFs,       \* destFs as the first call left it when it returned
    \* ---- ComponentService.addComponents ----
    componentNames,  \* the argument componentNames
    registry,        \* component name -> the files its metadata lists
    exitMocked,      \* TRUE when process.exit is replaced by a function that throws
    componentIndex,  \* position of the loop of addComponents (part_007:72)
    fileIndex,       \* position of the loop over comp.files (part_007:119)
    componentResult, \* the local result of addComponent (part_007:96)
    addResult,       \* the result of addComponents (part_007:62)
    componentError,  \* the message of the error addComponent threw, "none" if none
    apc,             \* position of addComponents
    skippedDests,    \* destinations the user answered skip for, this component
    committedFs,     \* what the batches that returned wrote, per destination
    outcomes,        \* per component processed: what addComponent did
    cancelNotice,    \* TRUE once logger.error("Cancelled.") has printed
    cancelledAt,     \* componentIndex at which the user answered cancel, 0 if never
    exit,            \* whether the process has exited, and its exit code
    \* ---- RegistryService.fetchComponent ----
    registryPc,      \* position of fetchComponent: which HttpService call runs
    registryCalls,   \* per HttpService call that ended: operation, status, threw
    registryResult,  \* what RegistryService.fetchComponent gave its caller
    \* ---- calculateDelay over the attempts of one call ----
    delayConfig,     \* initialDelay, backoffFactor (a fraction), maxDelay
    delayAttempt,    \* the attempt whose delay is computed next
    delaySeries      \* the delays computed so far, in order

httpVars == <<op, retryOptions, attempt, pc, requests, backend, delay, delays,
              response, lastError, thrown, result, elapsed, waits>>

batchVars == <<plannedFiles, destFs, tempFs, backupFs, preFs, tempFiles,
               backupTargets, bpc, idx, failedIn, failedAt, moved, rollbackFault>>

againVars == <<calls, firstFs>>

addVars == <<componentNames, registry, exitMocked, componentIndex, fileIndex,
             componentResult, addResult, componentError, apc, skippedDests,
             committedFs, outcomes, cancelNotice, cancelledAt, exit>>

registryVars == <<registryPc, registryCalls, registryResult>>

delayVars == <<delayConfig, delayAttempt, delaySeries>>

vars == <<httpVars, batchVars, againVars, addVars, registryVars, delayVars>>

(***************************************************************************)
(* Bounds of the model                                                     *)
(***************************************************************************)
MaxRetriesBound == 3     \* maxRetries ranges over 0..MaxRetriesBound
MaxFiles == 3            \* a batch has 1..MaxFiles planned files
MaxComponents == 2       \* addComponents is called with 1..MaxComponents names
MaxMetaFiles == 2        \* the metadata of a component lists 0..MaxMetaFiles files

(***************************************************************************)
(* HttpService                                                             *)
(***************************************************************************)
NoStatus == 0

\* HTTP statuses the backend answers with.
Statuses == {200, 404, 500, 503}

\* DEFAULT_RETRY_OPTIONS.retryableStatusCodes
DefaultRetryableStatusCodes == {408, 429, 500, 502, 503, 504}

\* Response.ok of the fetch API: the status is in 200..299.
ResponseOk(status) == status >= 200 /\ status <= 299

IsRetryableStatusAlways(status, retryableStatusCodes) == TRUE

\* isRetryableStatus
IsRetryableStatus(status, retryableStatusCodes) == status \in retryableStatusCodes

RECURSIVE Pow(_, _)
\* Math.pow on non-negative integers
Pow(b, e) == IF e = 0 THEN 1 ELSE b * Pow(b, e - 1)

\* Math.min
Min(a, b) == IF a <= b THEN a ELSE b

CalculateDelayNoClamp(att, initialDelay, backoffFactor, maxDelay) ==
    initialDelay * Pow(backoffFactor, att)

\* calculateDelay
CalculateDelay(att, initialDelay, backoffFactor, maxDelay) ==
    Min(initialDelay * Pow(backoffFactor, att), maxDelay)

\* Errors: kind is the class of the thrown value, msg the template of its
\* message, cause the kind of the wrapped error.
NoError == [kind |-> "none", msg |-> "none", cause |-> "none"]

\* What global fetch rejects with on a transport failure.
TransportError == [kind |-> "TypeError", msg |-> "fetch failed", cause |-> "none"]

\* fetchWithTimeout: the NetworkError built from an AbortError.
TimeoutError ==
    [kind |-> "NetworkError", msg |-> "Request timeout after", cause |-> "AbortError"]

\* fetch: the NetworkError of a retryable status on the last attempt.
StatusExhaustedError ==
    [kind |-> "NetworkError", msg |-> "Request failed after attempts: status",
     cause |-> "none"]

\* fetch: the NetworkError wrapping the last error.
WrapLastError(e) ==
    [kind |-> "NetworkError", msg |-> "Request failed after attempts: message",
     cause |-> e.kind]

\* error.message.includes("timeout")
MessageIncludesTimeout(e) == e.msg = "Request timeout after"

InstanceOfNetworkError(e) == e.kind = "NetworkError"

\* the condition of the for loop of fetch
LoopCondition(att, maxRetries) == att <= maxRetries

IsLastAttemptEarly(att, maxRetries) == att + 1 >= maxRetries

\* attempt === retryOptions.maxRetries
IsLastAttempt(att, maxRetries) == att = maxRetries

NextAttemptStuck(att) == att

\* attempt++ of the for loop
NextAttempt(att) == att + 1

CatchThrowsRaw(err) == err

\* What the catch block of fetch throws on the last attempt for the caught
\* error: a timeout NetworkError as it is, another NetworkError as it is, and
\* anything else wrapped in a NetworkError.
CatchThrows(err) ==
    IF InstanceOfNetworkError(err) /\ MessageIncludesTimeout(err)
    THEN err
    ELSE IF InstanceOfNetworkError(err) THEN err ELSE WrapLastError(err)

\* The retry options a caller passes; absent ones take DEFAULT_RETRY_OPTIONS.
InitialDelays == {10, 1000}
BackoffFactors == {1, 2}
MaxDelays == {25, 10000}
\* retryOptions.timeout, in ticks of the clock of the model
Timeouts == {1, 2}
RetryableSets == {DefaultRetryableStatusCodes, {404, 500}}

RetryOptionsSet ==
    [maxRetries : 0..MaxRetriesBound,
     initialDelay : InitialDelays,
     backoffFactor : BackoffFactors,
     maxDelay : MaxDelays,
     timeout : Timeouts,
     retryableStatusCodes : RetryableSets]

Operations == {"fetch", "fetchJson", "fetchText"}

HttpIdle ==
    /\ op = "fetch"
    /\ retryOptions = [maxRetries |-> 0, initialDelay |-> 10, backoffFactor |-> 1,
                       maxDelay |-> 25, timeout |-> 1,
                       retryableStatusCodes |-> DefaultRetryableStatusCodes]
    /\ attempt = 0
    /\ pc = "idle"
    /\ requests = 0
    /\ backend = <<>>
    /\ delay = 0
    /\ delays = <<>>
    /\ response = NoStatus
    /\ lastError = NoError
    /\ thrown = NoError
    /\ result = [tag |-> "pending"]
    /\ elapsed = 0
    /\ waits = <<>>

BatchIdle ==
    /\ plannedFiles = <<>>
    /\ destFs = <<>>
    /\ tempFs = <<>>
    /\ backupFs = <<>>
    /\ preFs = <<>>
    /\ tempFiles = <<>>
    /\ backupTargets = <<>>
    /\ bpc = "idle"
    /\ idx = 0
    /\ failedIn = "none"
    /\ failedAt = 0
    /\ moved = 0
    /\ rollbackFault = FALSE
    /\ calls = 0
    /\ firstFs = <<>>

ProcessRunning == [exited |-> FALSE, code |-> 0]

EmptyResult == [added |-> <<>>, skipped |-> <<>>, failed |-> <<>>]

AddIdle ==
    /\ componentNames = <<>>
    /\ registry = <<>>
    /\ exitMocked = FALSE
    /\ componentIndex = 0
    /\ fileIndex = 0
    /\ componentResult = EmptyResult
    /\ addResult = EmptyResult
    /\ componentError = "none"
    /\ apc = "idle"
    /\ skippedDests = {}
    /\ committedFs = <<>>
    /\ outcomes = <<>>
    /\ cancelNotice = FALSE
    /\ cancelledAt = 0
    /\ exit = ProcessRunning

RegistryIdle ==
    /\ registryPc = "idle"
    /\ registryCalls = <<>>
    /\ registryResult = [tag |-> "pending"]

DelayIdle ==
    /\ delayConfig = <<>>
    /\ delayAttempt = 0
    /\ delaySeries = <<>>

\* A call of fetch, fetchJson or fetchText begins: attempt = 0, lastError = null.
InitFetch ==
    /\ op \in Operations
    /\ retryOptions \in RetryOptionsSet
    /\ attempt = 0
    /\ pc = "attempt"
    /\ requests = 0
    /\ backend = <<>>
    /\ delay = 0
    /\ delays = <<>>
    /\ response = NoStatus
    /\ lastError = NoError
    /\ thrown = NoError
    /\ result = [tag |-> "pending"]
    /\ elapsed = 0
    /\ waits = <<>>
    /\ BatchIdle
    /\ AddIdle
    /\ RegistryIdle
    /\ DelayIdle

\* The catch block of fetch for a request that threw err: throw on the last
\* attempt, else compute the delay and go to sleep.
CatchBlock(err) ==
    /\ lastError' = err
    /\ IF IsLastAttempt(attempt, retryOptions.maxRetries)
       THEN /\ thrown' = CatchThrows(err)
            /\ pc' = "threw"
            /\ delay' = delay
       ELSE /\ delay' = CalculateDelay(attempt, retryOptions.initialDelay,
                                       retryOptions.backoffFactor,
                                       retryOptions.maxDelay)
            /\ pc' = "sleep"
            /\ thrown' = thrown

\* An iteration of the loop begins: fetchWithTimeout arms its timer and
\* issues the request.
SendRequest ==
    /\ pc = "attempt"
    /\ requests' = requests + 1
    /\ elapsed' = 0
    /\ pc' = "inflight"
    /\ UNCHANGED <<op, retryOptions, attempt, backend, delay, delays, response,
                   lastError, thrown, result, waits>>
    /\ UNCHANGED <<batchVars, againVars, addVars, registryVars, delayVars>>

\* Time passes while the request is in flight and its timer has not fired.
Tick ==
    /\ pc = "inflight"
    /\ elapsed < retryOptions.timeout
    /\ elapsed' = elapsed + 1
    /\ UNCHANGED <<op, retryOptions, attempt, pc, requests, backend, delay,
                   delays, response, lastError, thrown, result, waits>>
    /\ UNCHANGED <<batchVars, againVars, addVars, registryVars, delayVars>>

TimerElapsedAtOnce(time, timeout) == TRUE

\* setTimeout(() => controller.abort(), timeout): the timer fires when the
\* request has been in flight for timeout
TimerElapsed(time, timeout) == time = timeout

\* One iteration of the loop whose request got a response with this status.
AttemptResponse(status) ==
    /\ pc = "inflight"
    /\ backend' = Append(backend, [kind |-> "response", status |-> status])
    /\ IF ResponseOk(status)
          \/ ~IsRetryableStatus(status, retryOptions.retryableStatusCodes)
       THEN /\ response' = status
            /\ pc' = "returned"
            /\ UNCHANGED <<lastError, thrown, delay>>
       ELSE /\ response' = response
            /\ IF IsLastAttempt(attempt, retryOptions.maxRetries)
               THEN \* the NetworkError thrown at line 138 is caught at line 151
                    \* and thrown again at line 175
                    /\ lastError' = StatusExhaustedError
                    /\ thrown' = CatchThrows(StatusExhaustedError)
                    /\ pc' = "threw"
                    /\ delay' = delay
               ELSE /\ delay' = CalculateDelay(attempt, retryOptions.initialDelay,
                                               retryOptions.backoffFactor,
                                               retryOptions.maxDelay)
                    /\ pc' = "sleep"
                    /\ UNCHANGED <<lastError, thrown>>
    /\ UNCHANGED <<op, retryOptions, attempt, requests, delays, result, elapsed,
                   waits>>
    /\ UNCHANGED <<batchVars, againVars, addVars, registryVars, delayVars>>

\* One iteration of the loop whose request was rejected by the transport.
AttemptTransportError ==
    /\ pc = "inflight"
    /\ backend' = Append(backend, [kind |-> "error", status |-> NoStatus])
    /\ CatchBlock(TransportError)
    /\ UNCHANGED <<op, retryOptions, attempt, requests, delays, response, result,
                   elapsed, waits>>
    /\ UNCHANGED <<batchVars, againVars, addVars, registryVars, delayVars>>

\* One iteration of the loop whose request was aborted by the timer of
\* fetchWithTimeout.
AttemptTimeout ==
    /\ pc = "inflight"
    /\ TimerElapsed(elapsed, retryOptions.timeout)
    /\ waits' = Append(waits, elapsed)
    /\ backend' = Append(backend, [kind |-> "timeout", status |-> NoStatus])
    /\ CatchBlock(TimeoutError)
    /\ UNCHANGED <<op, retryOptions, attempt, requests, delays, response, result,
                   elapsed>>
    /\ UNCHANGED <<batchVars, againVars, addVars, registryVars, delayVars>>

\* await sleep(delay), then attempt++ and the loop test.
Sleep ==
    /\ pc = "sleep"
    /\ delays' = Append(delays, delay)
    /\ attempt' = NextAttempt(attempt)
    /\ IF LoopCondition(NextAttempt(attempt), retryOptions.maxRetries)
       THEN /\ pc' = "attempt"
            /\ thrown' = thrown
       ELSE /\ pc' = "threw"
            /\ thrown' = WrapLastError(lastError)
    /\ UNCHANGED <<op, retryOptions, requests, backend, delay, response,
                   lastError, result, elapsed, waits>>
    /\ UNCHANGED <<batchVars, againVars, addVars, registryVars, delayVars>>

\* fetch hands its response to the caller of fetch.
FetchReturns ==
    /\ pc = "returned"
    /\ op = "fetch"
    /\ result' = [tag |-> "response", status |-> response]
    /\ pc' = "done"
    /\ UNCHANGED <<op, retryOptions, attempt, requests, backend, delay, delays,
                   response, lastError, thrown, elapsed, waits>>
    /\ UNCHANGED <<batchVars, againVars, addVars, registryVars, delayVars>>

\* fetchJson / fetchText: the NetworkError of a response that is not ok.
NotOkError ==
    [kind |-> "NetworkError", msg |-> "Failed to fetch from", cause |-> "none"]

\* fetchJson / fetchText: the NetworkError wrapping what response.json() or
\* response.text() threw.
BodyError ==
    [kind |-> "NetworkError", msg |-> "Failed to parse or read", cause |-> "SyntaxError"]

ResponseAcceptedAlways(status) == TRUE

\* the test !response.ok of fetchJson and fetchText, negated
ResponseAccepted(status) == ResponseOk(status)

\* fetchJson / fetchText: the check of response.ok.
CheckOk ==
    /\ pc = "returned"
    /\ op \in {"fetchJson", "fetchText"}
    /\ IF ResponseAccepted(response)
       THEN /\ pc' = "body"
            /\ result' = result
       ELSE /\ pc' = "done"
            /\ result' = [tag |-> "error", error |-> NotOkError]
    /\ UNCHANGED <<op, retryOptions, attempt, requests, backend, delay, delays,
                   response, lastError, thrown, elapsed, waits>>
    /\ UNCHANGED <<batchVars, againVars, addVars, registryVars, delayVars>>

\* fetchJson / fetchText: response.json() / response.text() inside try/catch.
ReadBody ==
    /\ pc = "body"
    /\ \E parsed \in BOOLEAN :
          result' = IF parsed
                    THEN [tag |-> "value", status |-> response]
                    ELSE [tag |-> "error", error |-> BodyError]
    /\ pc' = "done"
    /\ UNCHANGED <<op, retryOptions, attempt, requests, backend, delay, delays,
                   response, lastError, thrown, elapsed, waits>>
    /\ UNCHANGED <<batchVars, againVars, addVars, registryVars, delayVars>>

\* The error fetch threw leaves the public operation (fetchJson and fetchText
\* do not catch around this.fetch).
Propagate ==
    /\ pc = "threw"
    /\ result' = [tag |-> "error", error |-> thrown]
    /\ pc' = "done"
    /\ UNCHANGED <<op, retryOptions, attempt, requests, backend, delay, delays,
                   response, lastError, thrown, elapsed, waits>>
    /\ UNCHANGED <<batchVars, againVars, addVars, registryVars, delayVars>>

NextFetch ==
    \/ SendRequest
    \/ Tick
    \/ \E status \in Statuses : AttemptResponse(status)
    \/ AttemptTransportError
    \/ AttemptTimeout
    \/ Sleep
    \/ FetchReturns
    \/ CheckOk
    \/ ReadBody
    \/ Propagate

SpecFetch == InitFetch /\ [][NextFetch]_vars

\* The event loop keeps running: a timer that was armed fires, a sleep ends
\* and a continuation that is ready is run.
SpecFetchFair == SpecFetch /\ WF_vars(NextFetch)

(***************************************************************************)
(* fetchComponent of the remote registry and RegistryService.fetchComponent *)
(*                                                                         *)
(* RegistryService.fetchComponent runs fetchComponent of remote-registry    *)
(* inside spinner.withTask and then parseComponentMeta. The three calls of  *)
(* HttpService it makes (fetch and fetchJson of the meta URL, fetchText of  *)
(* the download URL) run one after the other; each is the retry loop above  *)
(* under DEFAULT_RETRY_OPTIONS.                                             *)
(***************************************************************************)
\* DEFAULT_RETRY_OPTIONS; the timeout of 30000 ms is one tick of the clock.
DefaultRetryOptions ==
    [maxRetries |-> 3, initialDelay |-> 1000, backoffFactor |-> 2,
     maxDelay |-> 10000, timeout |-> 1,
     retryableStatusCodes |-> DefaultRetryableStatusCodes]

\* new ComponentNotFoundError(componentName)
ComponentNotFoundError ==
    [kind |-> "ComponentNotFoundError", msg |-> "Component not found",
     cause |-> "none"]

\* fetchComponent: the NetworkError of a first response that is not ok.
MetaNotFoundError ==
    [kind |-> "NetworkError", msg |-> "Component meta not found", cause |-> "none"]

\* fetchComponent: the NetworkError wrapping any other error.
WrapFetchFailure(e) ==
    [kind |-> "NetworkError", msg |-> "Failed to fetch component meta for",
     cause |-> e.kind]

\* parseComponentMeta: the Error of a file without download_url.
NoDownloadUrlError ==
    [kind |-> "Error", msg |-> "GitHub file has no download URL", cause |-> "none"]

\* parseComponentMeta: the Error its catch block throws.
ParseMetaError(e) ==
    [kind |-> "Error", msg |-> "Failed to parse component meta", cause |-> e.kind]

\* What JSON.parse throws.
SyntaxError == [kind |-> "SyntaxError", msg |-> "Unexpected token", cause |-> "none"]

\* The catch block of fetchComponent: ComponentNotFoundError and NetworkError
\* are thrown again, anything else is wrapped in a NetworkError.
RegistryCatch(err) ==
    IF err.kind \in {"ComponentNotFoundError", "NetworkError"}
    THEN err
    ELSE WrapFetchFailure(err)

\* spinner.withTask(message, task, ...): the outcome of the task is the
\* outcome of withTask.
WithTask(outcome) == outcome

\* A call of HttpService begins with no options: every retry option is the
\* default.
CallStart(operation) ==
    /\ op' = operation
    /\ retryOptions' = DefaultRetryOptions
    /\ attempt' = 0
    /\ pc' = "attempt"
    /\ requests' = 0
    /\ backend' = <<>>
    /\ delay' = 0
    /\ delays' = <<>>
    /\ response' = NoStatus
    /\ lastError' = NoError
    /\ thrown' = NoError
    /\ result' = [tag |-> "pending"]
    /\ elapsed' = 0
    /\ waits' = <<>>

\* What is kept of a call of HttpService that ended.
CallRecord == [op |-> op, status |-> response, threw |-> result.tag = "error"]

\* RegistryService.fetchComponent(name) begins: fetchComponent(name) sends
\* httpService.fetch(metaUrl).
InitRegistry ==
    /\ op = "fetch"
    /\ retryOptions = DefaultRetryOptions
    /\ attempt = 0
    /\ pc = "attempt"
    /\ requests = 0
    /\ backend = <<>>
    /\ delay = 0
    /\ delays = <<>>
    /\ response = NoStatus
    /\ lastError = NoError
    /\ thrown = NoError
    /\ result = [tag |-> "pending"]
    /\ elapsed = 0
    /\ waits = <<>>
    /\ registryPc = "fetch"
    /\ registryCalls = <<>>
    /\ registryResult = [tag |-> "pending"]
    /\ BatchIdle
    /\ AddIdle
    /\ DelayIdle

\* fetchComponent after httpService.fetch(metaUrl): the two status tests,
\* then httpService.fetchJson(metaUrl); an error goes through the catch block.
MetaFetched ==
    /\ registryPc = "fetch"
    /\ pc = "done"
    /\ registryCalls' = Append(registryCalls, CallRecord)
    /\ IF result.tag = "error"
       THEN /\ registryResult' = [tag |-> "error", error |-> RegistryCatch(result.error)]
            /\ registryPc' = "fetched"
            /\ UNCHANGED httpVars
       ELSE IF result.status = 404
       THEN /\ registryResult' =
                  [tag |-> "error", error |-> RegistryCatch(ComponentNotFoundError)]
            /\ registryPc' = "fetched"
            /\ UNCHANGED httpVars
       ELSE IF ~ResponseOk(result.status)
       THEN /\ registryResult' =
                  [tag |-> "error", error |-> RegistryCatch(MetaNotFoundError)]
            /\ registryPc' = "fetched"
            /\ UNCHANGED httpVars
       ELSE /\ registryPc' = "fetchJson"
            /\ registryResult' = registryResult
            /\ CallStart("fetchJson")
    /\ UNCHANGED <<batchVars, againVars, addVars, delayVars>>

\* fetchComponent after httpService.fetchJson(metaUrl): the GitHubFile is
\* returned, with or without a download_url; an error goes through the catch
\* block.
MetaJsonFetched ==
    /\ registryPc = "fetchJson"
    /\ pc = "done"
    /\ registryCalls' = Append(registryCalls, CallRecord)
    /\ IF result.tag = "error"
       THEN registryResult' = [tag |-> "error", error |-> RegistryCatch(result.error)]
       ELSE \E download_url \in BOOLEAN :
               registryResult' = [tag |-> "file", download_url |-> download_url]
    /\ registryPc' = "fetched"
    /\ UNCHANGED <<httpVars, batchVars, againVars, addVars, delayVars>>

\* RegistryService.fetchComponent after withTask: an error leaves the method,
\* a file goes to parseComponentMeta, which tests download_url and sends
\* httpService.fetchText(file.download_url).
ParseComponentMeta ==
    /\ registryPc = "fetched"
    /\ IF WithTask(registryResult).tag = "error"
       THEN /\ registryResult' = WithTask(registryResult)
            /\ registryPc' = "done"
            /\ UNCHANGED httpVars
       ELSE IF ~WithTask(registryResult).download_url
       THEN /\ registryResult' = [tag |-> "error", error |-> NoDownloadUrlError]
            /\ registryPc' = "done"
            /\ UNCHANGED httpVars
       ELSE /\ registryPc' = "fetchText"
            /\ registryResult' = registryResult
            /\ CallStart("fetchText")
    /\ UNCHANGED <<registryCalls, batchVars, againVars, addVars, delayVars>>

\* parseComponentMeta after httpService.fetchText: JSON.parse(raw); the catch
\* block throws an Error for whatever was thrown inside the try.
MetaTextFetched ==
    /\ registryPc = "fetchText"
    /\ pc = "done"
    /\ registryCalls' = Append(registryCalls, CallRecord)
    /\ IF result.tag = "error"
       THEN registryResult' = [tag |-> "error", error |-> ParseMetaError(result.error)]
       ELSE \E parsed \in BOOLEAN :
               registryResult' =
                   IF parsed
                   THEN [tag |-> "meta"]
                   ELSE [tag |-> "error", error |-> ParseMetaError(SyntaxError)]
    /\ registryPc' = "done"
    /\ UNCHANGED <<httpVars, batchVars, againVars, addVars, delayVars>>

NextRegistry ==
    \/ NextFetch
    \/ MetaFetched
    \/ MetaJsonFetched
    \/ ParseComponentMeta
    \/ MetaTextFetched

SpecRegistry == InitRegistry /\ [][NextRegistry]_vars

(***************************************************************************)
(* calculateDelay with a fractional backoffFactor                          *)
(*                                                                         *)
(* backoffFactor is any number the caller passes. A factor is the fraction  *)
(* n / d here and a delay is a fraction too, compared by cross product, so  *)
(* that Math.pow and the product are exact.                                 *)
(***************************************************************************)
Fraction(n, d) == [n |-> n, d |-> d]

FractionLeq(a, b) == a.n * b.d <= b.n * a.d

BackoffFractions ==
    {Fraction(1, 2), Fraction(2, 3), Fraction(1, 1), Fraction(3, 2),
     Fraction(2, 1), Fraction(3, 1)}

CalculateDelayFractionDividing(att, initialDelay, backoffFactor, maxDelay) ==
    LET d == Fraction(initialDelay * Pow(backoffFactor.d, att),
                      Pow(backoffFactor.n, att))
    IN  IF FractionLeq(d, Fraction(maxDelay, 1)) THEN d ELSE Fraction(maxDelay, 1)

\* calculateDelay: Math.min(initialDelay * Math.pow(backoffFactor, attempt), maxDelay)
CalculateDelayFraction(att, initialDelay, backoffFactor, maxDelay) ==
    LET d == Fraction(initialDelay * Pow(backoffFactor.n, att),
                      Pow(backoffFactor.d, att))
    IN  IF FractionLeq(d, Fraction(maxDelay, 1)) THEN d ELSE Fraction(maxDelay, 1)

\* The options of a call, before its first attempt.
InitDelay ==
    /\ delayConfig \in [initialDelay : InitialDelays,
                        backoffFactor : BackoffFractions,
                        maxDelay : MaxDelays]
    /\ delayAttempt = 0
    /\ delaySeries = <<>>
    /\ HttpIdle
    /\ BatchIdle
    /\ AddIdle
    /\ RegistryIdle

\* The delay of the next attempt is computed.
ComputeDelay ==
    /\ delayAttempt <= MaxRetriesBound
    /\ delaySeries' =
          Append(delaySeries,
                 CalculateDelayFraction(delayAttempt, delayConfig.initialDelay,
                                        delayConfig.backoffFactor,
                                        delayConfig.maxDelay))
    /\ delayAttempt' = delayAttempt + 1
    /\ UNCHANGED <<delayConfig, httpVars, batchVars, againVars, addVars,
                   registryVars>>

NextDelay == ComputeDelay

SpecDelay == InitDelay /\ [][NextDelay]_vars

(***************************************************************************)
(* ComponentService.applyFileBatch                                         *)
(*                                                                         *)
(* Destination paths are numbered from 1; the temp path and the backup path *)
(* of a destination are told by the destination, so the disk is three maps  *)
(* from destinations to contents.                                           *)
(***************************************************************************)
Dests == 1..(IF MaxFiles >= 2 * MaxComponents THEN MaxFiles ELSE 2 * MaxComponents)

Absent == [k |-> "absent", n |-> 0]
Partial == [k |-> "partial", n |-> 0]
\* what is at destination d before the call, when a file is there
Old(d) == [k |-> "old", n |-> d]
\* the content fetched for the i-th planned file
New(i) == [k |-> "new", n |-> i]

Range(s) == {s[i] : i \in 1..Len(s)}

\* Destinations are named in order of first use: renaming paths changes nothing.
Canonical(s) ==
    /\ s[1] = 1
    /\ \A i \in 2..Len(s) : \E j \in 1..(i - 1) : s[i] <= s[j] + 1

\* fileSystem.fileExists
FileExists(fs, path) == fs[path] # Absent

\* file-helper createFileBackup: copies the file aside; the new backup disk.
CreateFileBackup(bfs, dfs, d) == [bfs EXCEPT ![d] = dfs[d]]

\* file-helper restoreFileBackup: puts the backup back if there is one; the
\* new destination disk and the new backup disk.
RestoreFileBackup(dfs, bfs, d) ==
    IF bfs[d] # Absent
    THEN [dest |-> [dfs EXCEPT ![d] = bfs[d]], backup |-> [bfs EXCEPT ![d] = Absent]]
    ELSE [dest |-> dfs, backup |-> bfs]

\* file-helper deleteFileBackup: removes the backup if there is one.
DeleteFileBackup(bfs, d) == [bfs EXCEPT ![d] = Absent]

\* addComponent hands applyFileBatch a non-empty plan; existedBefore is what
\* fileExists answered for the destination while planning, and nothing is
\* written between planning and the call. Two files of one component can have
\* the same destination (getDestinationPath names it by component and type).
InitBatch ==
    /\ \E n \in 1..MaxFiles : \E s \in [1..n -> Dests] : \E existing \in SUBSET Dests :
          /\ Canonical(s)
          /\ existing \subseteq Range(s)
          /\ plannedFiles = [i \in 1..n |->
                                [destPath |-> s[i], content |-> New(i),
                                 existedBefore |-> s[i] \in existing]]
          /\ destFs = [d \in Dests |-> IF d \in existing THEN Old(d) ELSE Absent]
    /\ preFs = destFs
    /\ tempFs = [d \in Dests |-> Absent]
    /\ backupFs = [d \in Dests |-> Absent]
    /\ tempFiles = <<>>
    /\ backupTargets = <<>>
    /\ bpc = "stage"
    /\ idx = 1
    /\ failedIn = "none"
    /\ failedAt = 0
    /\ moved = 0
    /\ rollbackFault = FALSE
    /\ calls = 1
    /\ firstFs = [d \in Dests |-> Absent]
    /\ HttpIdle
    /\ AddIdle
    /\ RegistryIdle
    /\ DelayIdle

NextFileEarly(nextPhase) ==
    IF idx + 1 < Len(plannedFiles)
    THEN idx' = idx + 1 /\ bpc' = bpc
    ELSE idx' = 1 /\ bpc' = nextPhase

\* The loop of the current phase moves to its next file, or the phase ends.
NextFile(nextPhase) ==
    IF idx < Len(plannedFiles)
    THEN idx' = idx + 1 /\ bpc' = bpc
    ELSE idx' = 1 /\ bpc' = nextPhase

\* A step of the try block threw: the catch block starts at the first file.
EnterCatch(phase) ==
    /\ failedIn' = phase
    /\ failedAt' = idx
    /\ bpc' = "rollback"
    /\ idx' = 1

\* Stage: writeFile(tempPath, content) succeeds and tempPath is recorded.
StageWrite ==
    /\ bpc = "stage"
    /\ LET file == plannedFiles[idx] IN
          /\ tempFs' = [tempFs EXCEPT ![file.destPath] = file.content]
          /\ tempFiles' = Append(tempFiles, file.destPath)
    /\ NextFile("backup")
    /\ UNCHANGED <<plannedFiles, destFs, backupFs, preFs, backupTargets,
                   failedIn, failedAt, moved, rollbackFault>>
    /\ UNCHANGED <<httpVars, againVars, addVars, registryVars, delayVars>>

\* Stage: writeFile(tempPath, content) throws; the temp path is as it was
\* (mkdir or open failed) or holds a partial file (the write failed).
StageWriteFails ==
    /\ bpc = "stage"
    /\ LET file == plannedFiles[idx] IN
          \E left \in {tempFs[file.destPath], Partial} :
              tempFs' = [tempFs EXCEPT ![file.destPath] = left]
    /\ EnterCatch("stage")
    /\ UNCHANGED <<plannedFiles, destFs, backupFs, preFs, tempFiles,
                   backupTargets, moved, rollbackFault>>
    /\ UNCHANGED <<httpVars, againVars, addVars, registryVars, delayVars>>

\* Backup: a file that did not exist before is passed over (continue).
BackupContinue ==
    /\ bpc = "backup"
    /\ ~plannedFiles[idx].existedBefore
    /\ NextFile("commit")
    /\ UNCHANGED <<plannedFiles, destFs, tempFs, backupFs, preFs, tempFiles,
                   backupTargets, failedIn, failedAt, moved, rollbackFault>>
    /\ UNCHANGED <<httpVars, againVars, addVars, registryVars, delayVars>>

\* Backup: createFileBackup(destPath) gives a backup path.
BackupCreate ==
    /\ bpc = "backup"
    /\ plannedFiles[idx].existedBefore
    /\ LET file == plannedFiles[idx] IN
          /\ backupFs' = CreateFileBackup(backupFs, destFs, file.destPath)
          /\ backupTargets' = Append(backupTargets, file.destPath)
    /\ NextFile("commit")
    /\ UNCHANGED <<plannedFiles, destFs, tempFs, preFs, tempFiles,
                   failedIn, failedAt, moved, rollbackFault>>
    /\ UNCHANGED <<httpVars, againVars, addVars, registryVars, delayVars>>

\* Backup: createFileBackup(destPath) gives nothing, so an Error is thrown.
BackupFails ==
    /\ bpc = "backup"
    /\ plannedFiles[idx].existedBefore
    /\ EnterCatch("backup")
    /\ UNCHANGED <<plannedFiles, destFs, tempFs, backupFs, preFs, tempFiles,
                   backupTargets, moved, rollbackFault>>
    /\ UNCHANGED <<httpVars, againVars, addVars, registryVars, delayVars>>

CommitMoveCopies ==
    /\ bpc = "commit"
    /\ LET file == plannedFiles[idx] IN
          /\ FileExists(tempFs, file.destPath)
          /\ destFs' = [destFs EXCEPT ![file.destPath] = tempFs[file.destPath]]
    /\ moved' = moved + 1
    /\ NextFile("cleanup")
    /\ UNCHANGED <<plannedFiles, tempFs, backupFs, preFs, tempFiles, backupTargets,
                   failedIn, failedAt, rollbackFault>>
    /\ UNCHANGED <<httpVars, againVars, addVars, registryVars, delayVars>>

\* Commit: fsExtra.move(tempPath, destPath, {overwrite: true}) succeeds.
CommitMove ==
    /\ bpc = "commit"
    /\ LET file == plannedFiles[idx] IN
          /\ FileExists(tempFs, file.destPath)
          /\ destFs' = [destFs EXCEPT ![file.destPath] = tempFs[file.destPath]]
          /\ tempFs' = [tempFs EXCEPT ![file.destPath] = Absent]
    /\ moved' = moved + 1
    /\ NextFile("cleanup")
    /\ UNCHANGED <<plannedFiles, backupFs, preFs, tempFiles, backupTargets,
                   failedIn, failedAt, rollbackFault>>
    /\ UNCHANGED <<httpVars, againVars, addVars, registryVars, delayVars>>

\* Commit: fsExtra.move throws. It always does when the temp file is not
\* there; otherwise the destination is as it was, already removed, or
\* partly copied, and the temp file is still there.
CommitMoveFails ==
    /\ bpc = "commit"
    /\ LET file == plannedFiles[idx] IN
          IF FileExists(tempFs, file.destPath)
          THEN \E left \in {destFs[file.destPath], Absent, Partial} :
                  destFs' = [destFs EXCEPT ![file.destPath] = left]
          ELSE destFs' = destFs
    /\ EnterCatch("commit")
    /\ UNCHANGED <<plannedFiles, tempFs, backupFs, preFs, tempFiles,
                   backupTargets, moved, rollbackFault>>
    /\ UNCHANGED <<httpVars, againVars, addVars, registryVars, delayVars>>

RECURSIVE DeleteBackups(_, _)
\* backupTargets.forEach((filePath) => deleteFileBackup(filePath))
DeleteBackups(bfs, targets) ==
    IF targets = <<>>
    THEN bfs
    ELSE DeleteBackups(DeleteFileBackup(bfs, Head(targets)), Tail(targets))

CleanupSkipped ==
    /\ bpc = "cleanup"
    /\ bpc' = "returned"
    /\ UNCHANGED <<plannedFiles, destFs, tempFs, backupFs, preFs, tempFiles,
                   backupTargets, idx, failedIn, failedAt, moved, rollbackFault>>
    /\ UNCHANGED <<httpVars, againVars, addVars, registryVars, delayVars>>

\* Cleanup: the backups are deleted and applyFileBatch returns.
Cleanup ==
    /\ bpc = "cleanup"
    /\ backupFs' = DeleteBackups(backupFs, backupTargets)
    /\ bpc' = "returned"
    /\ UNCHANGED <<plannedFiles, destFs, tempFs, preFs, tempFiles,
                   backupTargets, idx, failedIn, failedAt, moved, rollbackFault>>
    /\ UNCHANGED <<httpVars, againVars, addVars, registryVars, delayVars>>

\* The first loop of the catch block ends: the loop over tempFiles follows,
\* and the error is thrown again when it has nothing to visit.
NextRollbackFile ==
    IF idx < Len(plannedFiles)
    THEN idx' = idx + 1 /\ bpc' = bpc
    ELSE idx' = 1 /\ bpc' = IF tempFiles = <<>> THEN "raised" ELSE "rmtemp"

\* Rollback of one planned file: the destination is removed if it exists,
\* then the backup is restored if the file existed before.
RollbackFile ==
    /\ bpc = "rollback"
    /\ LET file == plannedFiles[idx]
           removed == IF FileExists(destFs, file.destPath)
                      THEN [destFs EXCEPT ![file.destPath] = Absent]
                      ELSE destFs
           restored == IF file.existedBefore
                       THEN RestoreFileBackup(removed, backupFs, file.destPath)
                       ELSE [dest |-> removed, backup |-> backupFs]
       IN /\ destFs' = restored.dest
          /\ backupFs' = restored.backup
    /\ NextRollbackFile
    /\ UNCHANGED <<plannedFiles, tempFs, preFs, tempFiles, backupTargets,
                   failedIn, failedAt, moved, rollbackFault>>
    /\ UNCHANGED <<httpVars, againVars, addVars, registryVars, delayVars>>

\* Rollback of one planned file: fsExtra.remove(destPath) throws, which ends
\* the catch block with that error.
RollbackRemoveFails ==
    /\ bpc = "rollback"
    /\ FileExists(destFs, plannedFiles[idx].destPath)
    /\ rollbackFault' = TRUE
    /\ bpc' = "raised"
    /\ UNCHANGED <<plannedFiles, destFs, tempFs, backupFs, preFs, tempFiles,
                   backupTargets, idx, failedIn, failedAt, moved>>
    /\ UNCHANGED <<httpVars, againVars, addVars, registryVars, delayVars>>

\* Rollback of one recorded temp file: it is removed if it exists; after the
\* last one the error is thrown again.
RemoveTemp ==
    /\ bpc = "rmtemp"
    /\ LET tempFile == tempFiles[idx] IN
          tempFs' = IF FileExists(tempFs, tempFile)
                    THEN [tempFs EXCEPT ![tempFile] = Absent]
                    ELSE tempFs
    /\ IF idx < Len(tempFiles)
       THEN idx' = idx + 1 /\ bpc' = bpc
       ELSE idx' = idx /\ bpc' = "raised"
    /\ UNCHANGED <<plannedFiles, destFs, backupFs, preFs, tempFiles,
                   backupTargets, failedIn, failedAt, moved, rollbackFault>>
    /\ UNCHANGED <<httpVars, againVars, addVars, registryVars, delayVars>>

\* Rollback of one recorded temp file: fsExtra.remove(tempFile) throws.
RemoveTempFails ==
    /\ bpc = "rmtemp"
    /\ FileExists(tempFs, tempFiles[idx])
    /\ rollbackFault' = TRUE
    /\ bpc' = "raised"
    /\ UNCHANGED <<plannedFiles, destFs, tempFs, backupFs, preFs, tempFiles,
                   backupTargets, idx, failedIn, failedAt, moved>>
    /\ UNCHANGED <<httpVars, againVars, addVars, registryVars, delayVars>>

\* applyFileBatch is called once more with the same planned files right after
\* it returned: planning finds every destination on disk (fileExists), the
\* user answers overwrite, and the call starts with its own empty tempFiles
\* and backupTargets.
CallAgain ==
    /\ bpc = "returned"
    /\ calls = 1
    /\ calls' = 2
    /\ firstFs' = destFs
    /\ plannedFiles' = [i \in 1..Len(plannedFiles) |->
                           [plannedFiles[i] EXCEPT
                               !.existedBefore =
                                   FileExists(destFs, plannedFiles[i].destPath)]]
    /\ preFs' = destFs
    /\ tempFiles' = <<>>
    /\ backupTargets' = <<>>
    /\ bpc' = "stage"
    /\ idx' = 1
    /\ failedIn' = "none"
    /\ failedAt' = 0
    /\ moved' = 0
    /\ rollbackFault' = FALSE
    /\ UNCHANGED <<destFs, tempFs, backupFs>>
    /\ UNCHANGED <<httpVars, addVars, registryVars, delayVars>>

NextBatch ==
    \/ CallAgain
    \/ StageWrite
    \/ StageWriteFails
    \/ BackupContinue
    \/ BackupCreate
    \/ BackupFails
    \/ CommitMove
    \/ CommitMoveFails
    \/ Cleanup
    \/ RollbackFile
    \/ RollbackRemoveFails
    \/ RemoveTemp
    \/ RemoveTempFails

SpecBatch == InitBatch /\ [][NextBatch]_vars

(***************************************************************************)
(* ComponentService.addComponents and addComponent                         *)
(*                                                                         *)
(* Components are numbered 1..MaxComponents. File j of a component has the  *)
(* path j, so the identifier "<component>/<file path>" is the pair of the   *)
(* two; the identifier of a component alone has file 0. The content the     *)
(* registry serves for file j is New(j). A 'css' file is placed like a 'js' *)
(* file, in a directory of its own, and is left out.                        *)
(***************************************************************************)
ComponentNameSet == 1..MaxComponents

FileTypes == {"blade", "js"}

\* VelarComponentMeta.files, by the type of each file
Metas == UNION {[1..n -> FileTypes] : n \in 0..MaxMetaFiles}

Id(c, f) == [c |-> c, f |-> f]

GetDestinationPathSwapped(c, type) == IF type = "blade" THEN MaxComponents + c ELSE c

\* getDestinationPath: a blade file goes to <componentsPath>/<name>.blade.php
\* and a js file to resources/js/ui/<name>.js, whatever the path of the file.
GetDestinationPath(c, type) == IF type = "blade" THEN c ELSE MaxComponents + c

CancelExitCode == 0

\* the component addComponent is working on, and the files of its metadata
Component == componentNames[componentIndex]

Files == registry[Component]

CurrentDest == GetDestinationPath(Component, Files[fileIndex])

PlannedIds(pf) == [i \in 1..Len(pf) |-> Id(pf[i].componentName, pf[i].filePath)]

\* the message of the error applyFileBatch threw: the error of the step that
\* failed, or the error of the step of the catch block that failed
RaisedError ==
    IF rollbackFault THEN "remove failed"
    ELSE IF failedIn = "stage" THEN "write failed"
    ELSE IF failedIn = "backup" THEN "Failed to create backup"
    ELSE "move failed"

\* addComponents is called: result is empty and the loop is at the first name.
InitAddWith(mocked) ==
    /\ \E n \in 1..MaxComponents : \E names \in [1..n -> ComponentNameSet] :
          /\ Canonical(names)
          /\ componentNames = names
          /\ registry \in [Range(names) -> Metas]
    /\ \E existing \in SUBSET UNION {{GetDestinationPath(c, registry[c][j]) :
                                        j \in 1..Len(registry[c])} :
                                      c \in Range(componentNames)} :
          destFs = [d \in Dests |-> IF d \in existing THEN Old(d) ELSE Absent]
    /\ exitMocked = mocked
    /\ componentIndex = 1
    /\ fileIndex = 0
    /\ componentResult = EmptyResult
    /\ addResult = EmptyResult
    /\ componentError = "none"
    /\ apc = "fetchComponent"
    /\ skippedDests = {}
    /\ committedFs = [d \in Dests |-> Absent]
    /\ outcomes = <<>>
    /\ cancelNotice = FALSE
    /\ cancelledAt = 0
    /\ exit = ProcessRunning
    /\ plannedFiles = <<>>
    /\ preFs = destFs
    /\ tempFs = [d \in Dests |-> Absent]
    /\ backupFs = [d \in Dests |-> Absent]
    /\ tempFiles = <<>>
    /\ backupTargets = <<>>
    /\ bpc = "idle"
    /\ idx = 1
    /\ failedIn = "none"
    /\ failedAt = 0
    /\ moved = 0
    /\ rollbackFault = FALSE
    /\ calls = 0
    /\ firstFs = [d \in Dests |-> Absent]
    /\ HttpIdle
    /\ RegistryIdle
    /\ DelayIdle

InitAdd == InitAddWith(FALSE)

InitAddMocked == InitAddWith(TRUE)

addParams == <<componentNames, registry, exitMocked>>

disk == <<destFs, tempFs, backupFs>>

batchLocals == <<preFs, tempFiles, backupTargets, idx, failedIn, failedAt, moved,
                 rollbackFault>>

\* addComponent starts: registryService.fetchComponent gives the metadata
\* (resolveDependencies gives back the component alone), and the local result
\* and plannedFiles are empty.
FetchComponent ==
    /\ apc = "fetchComponent"
    /\ componentResult' = EmptyResult
    /\ componentError' = "none"
    /\ plannedFiles' = <<>>
    /\ fileIndex' = 1
    /\ skippedDests' = {}
    /\ bpc' = "idle"
    /\ apc' = "plan"
    /\ UNCHANGED <<addParams, componentIndex, addResult, committedFs, outcomes,
                   cancelNotice, cancelledAt, exit>>
    /\ UNCHANGED <<disk, batchLocals, httpVars, againVars, registryVars, delayVars>>

\* registryService.fetchComponent throws: addComponent throws with it.
FetchComponentFails ==
    /\ apc = "fetchComponent"
    /\ componentResult' = EmptyResult
    /\ componentError' = "fetchComponent failed"
    /\ plannedFiles' = <<>>
    /\ fileIndex' = 1
    /\ skippedDests' = {}
    /\ bpc' = "idle"
    /\ apc' = "componentDone"
    /\ UNCHANGED <<addParams, componentIndex, addResult, committedFs, outcomes,
                   cancelNotice, cancelledAt, exit>>
    /\ UNCHANGED <<disk, batchLocals, httpVars, againVars, registryVars, delayVars>>

\* The loop over comp.files is at a file whose destination exists.
Conflict ==
    /\ apc = "plan"
    /\ fileIndex <= Len(Files)
    /\ FileExists(destFs, CurrentDest)

PlanSkipAndPlan ==
    /\ Conflict
    /\ componentResult' =
          [componentResult EXCEPT !.skipped = Append(@, Id(Component, fileIndex))]
    /\ skippedDests' = skippedDests \cup {CurrentDest}
    /\ plannedFiles' =
          Append(plannedFiles,
                 [componentName |-> Component, filePath |-> fileIndex,
                  fileType |-> Files[fileIndex], destPath |-> CurrentDest,
                  content |-> New(fileIndex),
                  existedBefore |-> FileExists(destFs, CurrentDest)])
    /\ fileIndex' = fileIndex + 1
    /\ UNCHANGED <<addParams, componentIndex, addResult, componentError, apc,
                   committedFs, outcomes, cancelNotice, cancelledAt, exit>>
    /\ UNCHANGED <<bpc, disk, batchLocals, httpVars, againVars, registryVars,
                   delayVars>>

\* The user answers skip: the identifier goes to skipped and the loop goes on.
PlanSkip ==
    /\ Conflict
    /\ componentResult' =
          [componentResult EXCEPT !.skipped = Append(@, Id(Component, fileIndex))]
    /\ skippedDests' = skippedDests \cup {CurrentDest}
    /\ fileIndex' = fileIndex + 1
    /\ UNCHANGED <<addParams, componentIndex, addResult, componentError, apc,
                   committedFs, outcomes, cancelNotice, cancelledAt, exit>>
    /\ UNCHANGED <<plannedFiles, bpc, disk, batchLocals, httpVars, againVars, registryVars, delayVars>>

\* The user answers cancel: logger.error("Cancelled.") prints.
PlanCancel ==
    /\ Conflict
    /\ cancelNotice' = TRUE
    /\ cancelledAt' = componentIndex
    /\ apc' = "cancel"
    /\ UNCHANGED <<addParams, componentIndex, fileIndex, componentResult,
                   addResult, componentError, skippedDests, committedFs,
                   outcomes, exit>>
    /\ UNCHANGED <<plannedFiles, bpc, disk, batchLocals, httpVars, againVars, registryVars, delayVars>>

PlanFetchWritesNow ==
    /\ apc = "plan"
    /\ fileIndex <= Len(Files)
    /\ plannedFiles' =
          Append(plannedFiles,
                 [componentName |-> Component, filePath |-> fileIndex,
                  fileType |-> Files[fileIndex], destPath |-> CurrentDest,
                  content |-> New(fileIndex),
                  existedBefore |-> FileExists(destFs, CurrentDest)])
    /\ tempFs' = [tempFs EXCEPT ![CurrentDest] = New(fileIndex)]
    /\ fileIndex' = fileIndex + 1
    /\ UNCHANGED <<addParams, componentIndex, componentResult, addResult,
                   componentError, apc, skippedDests, committedFs, outcomes,
                   cancelNotice, cancelledAt, exit>>
    /\ UNCHANGED <<bpc, destFs, backupFs, batchLocals, httpVars, againVars, registryVars, delayVars>>

\* The destination does not exist, or the user answers overwrite:
\* registryService.fetchFile gives the content and the file is planned.
PlanFetch ==
    /\ apc = "plan"
    /\ fileIndex <= Len(Files)
    /\ plannedFiles' =
          Append(plannedFiles,
                 [componentName |-> Component, filePath |-> fileIndex,
                  fileType |-> Files[fileIndex], destPath |-> CurrentDest,
                  content |-> New(fileIndex),
                  existedBefore |-> FileExists(destFs, CurrentDest)])
    /\ fileIndex' = fileIndex + 1
    /\ UNCHANGED <<addParams, componentIndex, componentResult, addResult,
                   componentError, apc, skippedDests, committedFs, outcomes,
                   cancelNotice, cancelledAt, exit>>
    /\ UNCHANGED <<bpc, disk, batchLocals, httpVars, againVars, registryVars, delayVars>>

PlanFetchFailsLeavesPartial ==
    /\ apc = "plan"
    /\ fileIndex <= Len(Files)
    /\ componentError' = "fetchFile failed"
    /\ apc' = "componentDone"
    /\ destFs' = [destFs EXCEPT ![CurrentDest] = Partial]
    /\ UNCHANGED <<addParams, componentIndex, fileIndex, componentResult,
                   addResult, skippedDests, committedFs, outcomes, cancelNotice,
                   cancelledAt, exit>>
    /\ UNCHANGED <<plannedFiles, bpc, tempFs, backupFs, batchLocals, httpVars,
                   againVars, registryVars, delayVars>>

\* The same, but registryService.fetchFile throws: addComponent throws with
\* it and its local result and plannedFiles are dropped.
PlanFetchFails ==
    /\ apc = "plan"
    /\ fileIndex <= Len(Files)
    /\ componentError' = "fetchFile failed"
    /\ apc' = "componentDone"
    /\ UNCHANGED <<addParams, componentIndex, fileIndex, componentResult,
                   addResult, skippedDests, committedFs, outcomes, cancelNotice,
                   cancelledAt, exit>>
    /\ UNCHANGED <<plannedFiles, bpc, disk, batchLocals, httpVars, againVars, registryVars, delayVars>>

\* The loop over comp.files has ended with nothing planned: addComponent
\* returns its local result.
ReturnNothingPlanned ==
    /\ apc = "plan"
    /\ fileIndex > Len(Files)
    /\ plannedFiles = <<>>
    /\ apc' = "componentDone"
    /\ UNCHANGED <<addParams, componentIndex, fileIndex, componentResult,
                   addResult, componentError, skippedDests, committedFs,
                   outcomes, cancelNotice, cancelledAt, exit>>
    /\ UNCHANGED <<plannedFiles, bpc, disk, batchLocals, httpVars, againVars, registryVars, delayVars>>

\* The loop over comp.files has ended with files planned: applyFileBatch is
\* called with them and starts with empty tempFiles and backupTargets.
ApplyFileBatch ==
    /\ apc = "plan"
    /\ fileIndex > Len(Files)
    /\ plannedFiles # <<>>
    /\ preFs' = destFs
    /\ tempFiles' = <<>>
    /\ backupTargets' = <<>>
    /\ bpc' = "stage"
    /\ idx' = 1
    /\ failedIn' = "none"
    /\ failedAt' = 0
    /\ moved' = 0
    /\ rollbackFault' = FALSE
    /\ apc' = "apply"
    /\ UNCHANGED <<addParams, componentIndex, fileIndex, componentResult,
                   addResult, componentError, skippedDests, committedFs,
                   outcomes, cancelNotice, cancelledAt, exit>>
    /\ UNCHANGED <<plannedFiles, disk, httpVars, againVars, registryVars, delayVars>>

RECURSIVE Written(_, _)
\* what a batch that returned has put at each destination
Written(fs, pf) ==
    IF pf = <<>>
    THEN fs
    ELSE Written([fs EXCEPT ![Head(pf).destPath] = Head(pf).content], Tail(pf))

\* applyFileBatch returned: every planned file goes to added. autoImportJs
\* then edits the JS entry file only and keeps its errors to itself.
BatchReturned ==
    /\ apc = "apply"
    /\ bpc = "returned"
    /\ componentResult' =
          [componentResult EXCEPT !.added = @ \o PlannedIds(plannedFiles)]
    /\ committedFs' = Written(committedFs, plannedFiles)
    /\ apc' = "componentDone"
    /\ UNCHANGED <<addParams, componentIndex, fileIndex, addResult,
                   componentError, skippedDests, outcomes, cancelNotice,
                   cancelledAt, exit>>
    /\ UNCHANGED <<plannedFiles, bpc, disk, batchLocals, httpVars, againVars, registryVars, delayVars>>

\* applyFileBatch threw: every planned file goes to failed with the message.
BatchRaised ==
    /\ apc = "apply"
    /\ bpc = "raised"
    /\ componentResult' =
          [componentResult EXCEPT
              !.failed = @ \o [i \in 1..Len(plannedFiles) |->
                                  [name |-> PlannedIds(plannedFiles)[i],
                                   error |-> RaisedError]]]
    /\ apc' = "componentDone"
    /\ UNCHANGED <<addParams, componentIndex, fileIndex, addResult,
                   componentError, skippedDests, committedFs, outcomes,
                   cancelNotice, cancelledAt, exit>>
    /\ UNCHANGED <<plannedFiles, bpc, disk, batchLocals, httpVars, againVars, registryVars, delayVars>>

ProcessExitRaises ==
    /\ apc = "cancel"
    /\ componentError' = "exit"
    /\ apc' = "componentDone"
    /\ UNCHANGED <<addParams, componentIndex, fileIndex, componentResult,
                   addResult, skippedDests, committedFs, outcomes, cancelNotice,
                   cancelledAt, exit>>
    /\ UNCHANGED <<plannedFiles, bpc, disk, batchLocals, httpVars, againVars, registryVars, delayVars>>

\* process.exit(0) after the notice: the process ends there. A process.exit
\* replaced by a function that throws makes addComponent throw instead.
ProcessExit ==
    /\ apc = "cancel"
    /\ IF exitMocked
       THEN /\ componentError' = "exit"
            /\ apc' = "componentDone"
            /\ exit' = exit
       ELSE /\ componentError' = componentError
            /\ apc' = "exited"
            /\ exit' = [exited |-> TRUE, code |-> CancelExitCode]
    /\ UNCHANGED <<addParams, componentIndex, fileIndex, componentResult,
                   addResult, skippedDests, committedFs, outcomes, cancelNotice,
                   cancelledAt>>
    /\ UNCHANGED <<plannedFiles, bpc, disk, batchLocals, httpVars, againVars, registryVars, delayVars>>

\* what addComponent did for one component, as addComponents saw it
Outcome ==
    [name |-> Component,
     error |-> componentError,
     planned |-> PlannedIds(plannedFiles),
     skipped |-> componentResult.skipped,
     batch |-> IF componentError # "none" \/ bpc = "idle" THEN "none"
               ELSE IF bpc = "raised" THEN RaisedError
               ELSE "returned"]

\* the loop of addComponents goes to the next name, or addComponents returns
NextComponent ==
    IF componentIndex < Len(componentNames)
    THEN componentIndex' = componentIndex + 1 /\ apc' = "fetchComponent"
    ELSE componentIndex' = componentIndex /\ apc' = "returned"

\* The call of addComponent is over: its local variables, and those of the
\* call of applyFileBatch it made, are gone.
AddComponentEnds ==
    /\ componentResult' = EmptyResult
    /\ componentError' = "none"
    /\ fileIndex' = 0
    /\ skippedDests' = {}
    /\ plannedFiles' = <<>>
    /\ preFs' = destFs
    /\ tempFiles' = <<>>
    /\ backupTargets' = <<>>
    /\ bpc' = "idle"
    /\ idx' = 1
    /\ failedIn' = "none"
    /\ failedAt' = 0
    /\ moved' = 0
    /\ rollbackFault' = FALSE

CollectDropsError ==
    /\ apc = "componentDone"
    /\ addResult' =
          IF componentError = "none"
          THEN [added |-> addResult.added \o componentResult.added,
                skipped |-> addResult.skipped \o componentResult.skipped,
                failed |-> addResult.failed \o componentResult.failed]
          ELSE addResult
    /\ outcomes' = Append(outcomes, Outcome)
    /\ NextComponent
    /\ AddComponentEnds
    /\ UNCHANGED <<addParams, committedFs, cancelNotice, cancelledAt, exit>>
    /\ UNCHANGED <<disk, httpVars, againVars, registryVars, delayVars>>

\* addComponents takes what addComponent returned into its result, or records
\* the error addComponent threw under the name of the component.
Collect ==
    /\ apc = "componentDone"
    /\ addResult' =
          IF componentError = "none"
          THEN [added |-> addResult.added \o componentResult.added,
                skipped |-> addResult.skipped \o componentResult.skipped,
                failed |-> addResult.failed \o componentResult.failed]
          ELSE [addResult EXCEPT
                   !.failed = Append(@, [name |-> Id(Component, 0),
                                         error |-> componentError])]
    /\ outcomes' = Append(outcomes, Outcome)
    /\ NextComponent
    /\ AddComponentEnds
    /\ UNCHANGED <<addParams, committedFs, cancelNotice, cancelledAt, exit>>
    /\ UNCHANGED <<disk, httpVars, againVars, registryVars, delayVars>>

\* a step of applyFileBatch, called by addComponent
BatchStep ==
    \/ StageWrite
    \/ StageWriteFails
    \/ BackupContinue
    \/ BackupCreate
    \/ BackupFails
    \/ CommitMove
    \/ CommitMoveFails
    \/ Cleanup
    \/ RollbackFile
    \/ RollbackRemoveFails
    \/ RemoveTemp
    \/ RemoveTempFails

NextAdd ==
    \/ FetchComponent
    \/ FetchComponentFails
    \/ PlanSkip
    \/ PlanCancel
    \/ PlanFetch
    \/ PlanFetchFails
    \/ ReturnNothingPlanned
    \/ ApplyFileBatch
    \/ BatchStep
    \/ BatchReturned
    \/ BatchRaised
    \/ ProcessExit
    \/ Collect

SpecAdd == InitAdd /\ [][NextAdd]_vars

SpecAddMocked == InitAddMocked /\ [][NextAdd]_vars

(***************************************************************************)
(* Properties of applyFileBatch                                            *)
(***************************************************************************)
BatchDests == {plannedFiles[i].destPath : i \in 1..Len(plannedFiles)}

DistinctDests ==
    \A i, j \in 1..Len(plannedFiles) :
        plannedFiles[i].destPath = plannedFiles[j].destPath => i = j

\* applyFileBatch has raised the error of the step that failed in this phase,
\* after a rollback none of whose steps failed.
RaisedAfter(phase) == bpc = "raised" /\ failedIn = phase /\ ~rollbackFault

DestsAsBefore == \A d \in BatchDests : destFs[d] = preFs[d]

\* C2: when a move of the commit phase fails after at least one file was
\* moved, every destination of the batch is as it was before the call once
\* applyFileBatch has raised.
C2_CommitFailureRestores ==
    (RaisedAfter("commit") /\ moved >= 1) => DestsAsBefore

\* The same with pairwise distinct destinations in the batch.
CommitFailureRestoresDistinct ==
    (RaisedAfter("commit") /\ moved >= 1 /\ DistinctDests) => DestsAsBefore

\* C3: when a staging write fails, every destination that existed before the
\* call still exists with its original content once applyFileBatch has raised.
C3_StageFailureKeepsOriginals ==
    RaisedAfter("stage") =>
        \A d \in BatchDests : preFs[d] # Absent => destFs[d] = preFs[d]

\* C4: when a backup fails, every original destination file is untouched once
\* applyFileBatch has raised, and no backup and no staged temp file is left.
C4_BackupFailureKeepsOriginals ==
    RaisedAfter("backup") =>
        /\ DestsAsBefore
        /\ \A d \in BatchDests : backupFs[d] = Absent /\ tempFs[d] = Absent

\* C5: after applyFileBatch returns normally every destination holds the new
\* content of its planned file, and no temp file and no backup is left.
C5_ReturnedMeansWritten ==
    bpc = "returned" =>
        /\ \A i \in 1..Len(plannedFiles) :
              destFs[plannedFiles[i].destPath] = plannedFiles[i].content
        /\ \A d \in BatchDests : tempFs[d] = Absent /\ backupFs[d] = Absent

C5_Witness ==
    /\ bpc = "returned"
    /\ Len(plannedFiles) >= 3
    /\ \E i \in 1..Len(plannedFiles) : plannedFiles[i].existedBefore
    /\ \E i \in 1..Len(plannedFiles) : ~plannedFiles[i].existedBefore
    /\ \A i \in 1..Len(plannedFiles) : destFs[plannedFiles[i].destPath] = New(i)

(***************************************************************************)
(* Properties of HttpService                                               *)
(***************************************************************************)
N == retryOptions.maxRetries

\* A backend answer fetch returns to its caller: an ok response, or a non-ok
\* one whose status is not in retryableStatusCodes.
Acceptable(e) ==
    /\ e.kind = "response"
    /\ (e.status \in 200..299 \/ e.status \notin retryOptions.retryableStatusCodes)

\* A backend answer with a non-ok status in retryableStatusCodes.
RetryableAnswer(e) ==
    /\ e.kind = "response"
    /\ e.status \notin 200..299
    /\ e.status \in retryOptions.retryableStatusCodes

AllRetryable == \A i \in 1..Len(backend) : RetryableAnswer(backend[i])

IsNetworkErrorResult ==
    /\ result.tag = "error"
    /\ result.error.kind = "NetworkError"

\* C1: a call with maxRetries = N never issues more than N + 1 physical
\* requests, whatever the backend does on each of them.
C1_AttemptsBounded ==
    /\ requests <= N + 1
    /\ Len(backend) = requests - (IF pc = "inflight" THEN 1 ELSE 0)

C1_Witness ==
    /\ pc = "done"
    /\ N = MaxRetriesBound
    /\ requests = N + 1
    /\ \E i \in 1..Len(backend) : backend[i].kind = "timeout"
    /\ \E i \in 1..Len(backend) : backend[i].kind = "error"
    /\ \E i \in 1..Len(backend) : backend[i].kind = "response"

\* C6: when every attempt is answered with a retryable status, the call makes
\* exactly N + 1 requests and then raises NetworkError: it never returns a
\* response or a value, and it does not raise before request N + 1.
C6_AlwaysRetryableExhausts ==
    (requests > 0 /\ AllRetryable) =>
        /\ response = NoStatus
        /\ result.tag \in {"pending", "error"}
        /\ pc \in {"attempt", "inflight", "sleep", "threw", "done"}
        /\ (pc \in {"threw", "done"} =>
                requests = N + 1 /\ thrown.kind = "NetworkError")
        /\ (pc = "done" => IsNetworkErrorResult)
        /\ (pc \in {"attempt", "sleep"} => requests <= N)
        /\ (pc = "inflight" => requests <= N + 1)

C6_Witness ==
    /\ pc = "done"
    /\ op = "fetchJson"
    /\ N = 2
    /\ AllRetryable
    /\ requests = 3
    /\ IsNetworkErrorResult

\* C7: fetch returns the first acceptable response at once and starts no
\* attempt after it: an acceptable answer is always the last request made, the
\* answers before it were all failures, fetch has returned exactly that
\* response without throwing, and after k failures it took k + 1 requests.
C7_FirstAcceptableReturned ==
    /\ \A i \in 1..Len(backend) :
          Acceptable(backend[i]) =>
              /\ i = Len(backend)
              /\ requests = i
              /\ Len(delays) = i - 1
              /\ pc \in {"returned", "body", "done"}
              /\ response = backend[i].status
              /\ thrown = NoError
              /\ (op = "fetch" /\ pc = "done" =>
                      result = [tag |-> "response", status |-> backend[i].status])
    /\ (response # NoStatus =>
            Len(backend) > 0 /\ Acceptable(backend[Len(backend)]))

C7_Witness ==
    /\ op = "fetch"
    /\ pc = "done"
    /\ backend = <<[kind |-> "response", status |-> 500],
                   [kind |-> "response", status |-> 503],
                   [kind |-> "response", status |-> 200]>>
    /\ requests = 3
    /\ result = [tag |-> "response", status |-> 200]

\* C8: the i-th delay slept (i from 0) is min(initialDelay * backoffFactor^i,
\* maxDelay) whatever kind of failure attempt i was, so no delay exceeds
\* maxDelay.
C8_BackoffDelays ==
    /\ \A i \in 1..Len(delays) :
          /\ delays[i] = Min(retryOptions.initialDelay
                               * Pow(retryOptions.backoffFactor, i - 1),
                             retryOptions.maxDelay)
          /\ delays[i] <= retryOptions.maxDelay
    /\ (pc = "sleep" =>
          /\ delay = Min(retryOptions.initialDelay
                           * Pow(retryOptions.backoffFactor, attempt),
                         retryOptions.maxDelay)
          /\ Len(delays) = attempt)

C8_Witness ==
    /\ delays = <<10, 20, 40>>
    /\ backend[1].kind = "response"
    /\ backend[2].kind = "error"
    /\ backend[3].kind = "timeout"

\* C9: a non-ok response that fetch returns reaches the caller of fetch as a
\* normal value, and makes fetchJson and fetchText raise NetworkError.
C9_NonOkContracts ==
    (pc = "done" /\ response # NoStatus /\ response \notin 200..299) =>
        /\ thrown = NoError
        /\ (op = "fetch" => result = [tag |-> "response", status |-> response])
        /\ (op \in {"fetchJson", "fetchText"} => IsNetworkErrorResult)

C9_Witness ==
    /\ pc = "done"
    /\ op = "fetchText"
    /\ response = 404
    /\ requests = 1
    /\ IsNetworkErrorResult

\* C10: every failure fetch, fetchJson or fetchText raises is a NetworkError;
\* a transport error on the last attempt is the cause of the NetworkError
\* raised, and a body that cannot be parsed or read gives a NetworkError.
C10_OnlyNetworkError ==
    /\ (thrown # NoError => thrown.kind = "NetworkError")
    /\ (result.tag = "error" => result.error.kind = "NetworkError")
    /\ (pc \in {"threw", "done"} /\ thrown # NoError
          /\ backend[Len(backend)].kind = "error" =>
              thrown.cause = "TypeError")
    /\ (pc = "done" /\ response \in 200..299 /\ op # "fetch" =>
              \/ result.tag = "value"
              \/ IsNetworkErrorResult /\ result.error.cause = "SyntaxError")

C10_Witness ==
    /\ pc = "done"
    /\ op = "fetchJson"
    /\ N >= 1
    /\ requests = N + 1
    /\ backend[Len(backend)].kind = "error"
    /\ IsNetworkErrorResult
    /\ result.error.cause = "TypeError"

NeverResponds == \A i \in 1..Len(backend) : backend[i].kind = "timeout"

TimeoutAttempts ==
    NeverResponds =>
        /\ elapsed <= retryOptions.timeout
        /\ Len(waits) = Len(backend)
        /\ \A i \in 1..Len(waits) : waits[i] = retryOptions.timeout /\ waits[i] > 0
        /\ response = NoStatus
        /\ pc \in {"attempt", "inflight", "sleep", "threw", "done"}
        /\ (pc \in {"attempt", "inflight"} => Len(delays) = attempt)
        /\ (pc = "sleep" => Len(delays) = attempt /\ Len(backend) = attempt + 1)
        /\ \A i \in 1..Len(delays) :
              delays[i] = Min(retryOptions.initialDelay
                                * Pow(retryOptions.backoffFactor, i - 1),
                              retryOptions.maxDelay)
        /\ (pc \in {"threw", "done"} =>
                /\ requests = N + 1
                /\ Len(backend) = N + 1
                /\ Len(delays) = N
                /\ thrown = TimeoutError)
        /\ (pc = "done" => result = [tag |-> "error", error |-> TimeoutError])

NoTempLeft == \A d \in BatchDests : tempFs[d] = Absent

NoBackupLeft == \A d \in BatchDests : backupFs[d] = Absent

\* C12: whatever phase failed, once applyFileBatch has raised (after a rollback
\* none of whose steps failed) no temp file and no backup of the batch is left.
C12_NoArtifactsAfterRaise ==
    (bpc = "raised" /\ ~rollbackFault) => NoTempLeft /\ NoBackupLeft

\* What does hold: no backup is left, and a temp file is left only after a
\* failed staging write, at the path whose write failed.
RaiseLeavesOnlyFailedTemp ==
    (bpc = "raised" /\ ~rollbackFault) =>
        /\ NoBackupLeft
        /\ (failedIn # "stage" => NoTempLeft)
        /\ \A d \in BatchDests :
              tempFs[d] # Absent =>
                  d = plannedFiles[failedAt].destPath /\ tempFs[d] = Partial

\* C19: a second call with the same planned files right after a first call
\* that returned finds every destination present (existedBefore = TRUE), has a
\* staged temp file to move at every commit step, and when it returns every
\* destination holds what the first call left and no temp file and no backup
\* remains.
C19_SecondCallSameEndState ==
    calls = 2 =>
        /\ \A i \in 1..Len(plannedFiles) : plannedFiles[i].existedBefore
        /\ (bpc = "commit" => FileExists(tempFs, plannedFiles[idx].destPath))
        /\ (bpc = "returned" =>
                /\ \A d \in Dests : destFs[d] = firstFs[d]
                /\ \A i \in 1..Len(plannedFiles) :
                      destFs[plannedFiles[i].destPath] = plannedFiles[i].content
                /\ NoTempLeft /\ NoBackupLeft)

C19_Witness ==
    /\ calls = 2
    /\ bpc = "returned"
    /\ Len(plannedFiles) = 3
    /\ \E d \in BatchDests : preFs[d] # Absent /\ firstFs[d] = destFs[d]
    /\ Len(backupTargets) = 3

(***************************************************************************)
(* Properties of addComponents                                             *)
(***************************************************************************)
FailedNames(res) == {res.failed[i].name : i \in 1..Len(res.failed)}

\* A batch of the current component has run and ended.
BatchEnded == apc = "componentDone" /\ bpc \in {"returned", "raised"}

SkipUntouched ==
    \A d \in skippedDests :
        bpc # "idle" => destFs[d] = preFs[d] /\ d \notin Range(backupTargets)

SkipRecorded ==
    \A i \in 1..Len(componentResult.skipped) :
        /\ componentResult.skipped[i] \notin Range(componentResult.added)
        /\ componentResult.skipped[i] \notin FailedNames(componentResult)

\* C13: a destination the user answered skip for is as it was when the batch
\* of the component began and is not backed up, at every moment of the batch,
\* and the identifier recorded in skipped is in neither added nor failed.
C13_SkipLeavesFileAlone == SkipUntouched /\ SkipRecorded

\* The same when no planned file of the component has a skipped destination.
SkipLeavesFileAloneDistinct ==
    (skippedDests \cap BatchDests = {}) => SkipUntouched /\ SkipRecorded

C15_PromptsBeforeWrites ==
    [][/\ (apc \in {"fetchComponent", "plan", "cancel", "exited"} =>
              UNCHANGED disk)
       /\ (cancelNotice => UNCHANGED disk)
       /\ (apc' = "plan" => apc \in {"fetchComponent", "plan"})
       /\ (apc = "apply" => apc' \in {"apply", "componentDone"})
       /\ (apc' = "fetchComponent" => componentIndex' = componentIndex + 1)
      ]_vars

C15_Witness ==
    /\ apc = "exited"
    /\ cancelledAt = 2
    /\ Len(addResult.added) = 2
    /\ plannedFiles # <<>>
    /\ \A d \in Dests : tempFs[d] = Absent /\ backupFs[d] = Absent

AllAdded ==
    /\ \A i \in 1..Len(plannedFiles) :
          /\ PlannedIds(plannedFiles)[i] \in Range(componentResult.added)
          /\ destFs[plannedFiles[i].destPath] = plannedFiles[i].content
    /\ componentResult.failed = <<>>

AllFailed ==
    /\ \A i \in 1..Len(plannedFiles) :
          PlannedIds(plannedFiles)[i] \in FailedNames(componentResult)
    /\ componentResult.added = <<>>
    /\ DestsAsBefore

\* C17: when the batch of a component has ended (after a rollback none of
\* whose steps failed), either every planned file is in added and on disk
\* with its new content, or every planned file is in failed and every
\* destination is as it was before the batch.
C17_BatchAllOrNothing ==
    (BatchEnded /\ ~rollbackFault) => AllAdded \/ AllFailed

\* What does hold: the lists are all-or-nothing.
ListsAllOrNothing ==
    BatchEnded =>
        \/ /\ Range(PlannedIds(plannedFiles)) = Range(componentResult.added)
           /\ componentResult.failed = <<>>
        \/ /\ Range(PlannedIds(plannedFiles)) = FailedNames(componentResult)
           /\ componentResult.added = <<>>

CommittedOnDisk ==
    \A d \in Dests : committedFs[d] # Absent => destFs[d] = committedFs[d]

CommittedReported ==
    \A i \in 1..Len(outcomes) :
        outcomes[i].batch = "returned" =>
            \A k \in 1..Len(outcomes[i].planned) :
                outcomes[i].planned[k] \in Range(addResult.added)

\* C18: whenever no batch is running (and no step of a rollback failed), every
\* file a batch that returned has written still has the content written, and
\* its identifier is in added.
C18_CommittedStaysCommitted ==
    (apc # "apply" /\ ~rollbackFault) => CommittedOnDisk /\ CommittedReported

\* The same for requests that name no component twice: it holds at every
\* moment, also while a later batch runs or rolls back.
CommittedStaysDistinctNames ==
    (\A i, j \in 1..Len(componentNames) :
        componentNames[i] = componentNames[j] => i = j)
    => CommittedOnDisk /\ CommittedReported

\* C20: with process.exit replaced by a function that throws, a cancel answer
\* is not recorded as a failed component and no later component is processed.
C20_MockedExitPropagates ==
    (exitMocked /\ cancelledAt # 0) =>
        /\ componentIndex = cancelledAt
        /\ apc \in {"cancel", "rejected"}
        /\ \A i \in 1..Len(addResult.failed) : addResult.failed[i].error # "exit"

(***************************************************************************)
(* Properties of calculateDelay                                            *)
(***************************************************************************)
NonDecreasing ==
    \A i \in 1..(Len(delaySeries) - 1) :
        FractionLeq(delaySeries[i], delaySeries[i + 1])

\* With a whole factor the delays are those of CalculateDelay.
WholeFactorAgrees ==
    delayConfig.backoffFactor.d = 1 =>
        \A i \in 1..Len(delaySeries) :
            delaySeries[i] =
                Fraction(CalculateDelay(i - 1, delayConfig.initialDelay,
                                        delayConfig.backoffFactor.n,
                                        delayConfig.maxDelay), 1)

\* C22 as stated: for every configuration the delay after attempt i + 1 is at
\* least the delay after attempt i.
C22_DelaysNonDecreasing == NonDecreasing

\* C22 amended: the same for the configurations whose backoffFactor is at
\* least 1 and whose initialDelay is not negative.
C22_DelaysNonDecreasingFactorAtLeastOne ==
    (/\ delayConfig.backoffFactor.n >= delayConfig.backoffFactor.d
     /\ delayConfig.initialDelay >= 0)
    => NonDecreasing /\ WholeFactorAgrees

C22_Witness ==
    /\ delayConfig = [initialDelay |-> 10, backoffFactor |-> Fraction(3, 2),
                      maxDelay |-> 25]
    /\ Len(delaySeries) = 4
    /\ delaySeries[3] = Fraction(90, 4)
    /\ delaySeries[4] = Fraction(25, 1)

(***************************************************************************)
(* Properties of fetchComponent                                            *)
(***************************************************************************)
\* The calls of HttpService that request the metadata of the component from
\* the registry (the meta URL) and that ended with a 404 response.
MetaRequestGot404 ==
    \E i \in 1..Len(registryCalls) :
        /\ registryCalls[i].op \in {"fetch", "fetchJson"}
        /\ registryCalls[i].status = 404

\* C21: whenever one of the requests of fetchComponent for the metadata of
\* the component is answered 404, fetchComponent fails with
\* ComponentNotFoundError.
C21_NotFoundOnAny404 ==
    (registryPc = "fetched" /\ MetaRequestGot404)
    => /\ registryResult.tag = "error"
       /\ registryResult.error.kind = "ComponentNotFoundError"

\* The 404 of the first request gives ComponentNotFoundError.
NotFoundOnFirst404 ==
    (/\ registryPc = "fetched"
     /\ Len(registryCalls) = 1
     /\ registryCalls[1].status = 404)
    => /\ registryResult.tag = "error"
       /\ registryResult.error.kind = "ComponentNotFoundError"

\* The download of the metadata file or its parsing failed.
DownloadOrParseFailed ==
    /\ registryPc = "done"
    /\ Len(registryCalls) = 3
    /\ registryResult.tag = "error"

\* C26: RegistryService.fetchComponent fails with a NetworkError whenever the
\* download of the metadata file or its parsing fails, and an error of the
\* HTTP layer keeps its kind.
C26_DownloadFailureIsNetworkError ==
    DownloadOrParseFailed => registryResult.error.kind = "NetworkError"

\* The errors of fetchComponent of the remote registry keep their kind
\* through RegistryService.fetchComponent.
FetchErrorKindKept ==
    (/\ registryPc = "done"
     /\ Len(registryCalls) < 3
     /\ registryResult.tag = "error"
     /\ registryResult.error # NoDownloadUrlError)
    => registryResult.error.kind \in {"ComponentNotFoundError", "NetworkError"}

(***************************************************************************)
(* Properties of addComponent: one markup file                             *)
(***************************************************************************)
\* <componentsPath>/<component>.blade.php
BladePath(c) == c

OneAdded(c) == [added |-> <<Id(c, 1)>>, skipped |-> <<>>, failed |-> <<>>]

\* addComponent is at its end for a component of one blade file whose
\* destination did not exist, and neither a fetch nor the batch failed.
SingleBladeAdded ==
    /\ apc = "componentDone"
    /\ Files = <<"blade">>
    /\ preFs[BladePath(Component)] = Absent
    /\ componentError = "none"
    /\ bpc # "raised"

\* C23: adding a component of a single blade file with no file at the
\* destination returns added = [<component>/<path>] with empty skipped and
\* failed, and the file at <componentsPath>/<component>.blade.php holds the
\* content fetched from the registry; addComponents returns the same when the
\* component is the only one asked for.
C23_SingleBladeAdded ==
    /\ SingleBladeAdded
       => /\ componentResult = OneAdded(Component)
          /\ destFs[BladePath(Component)] = New(1)
    /\ (/\ apc = "returned"
        /\ Len(componentNames) = 1
        /\ registry[componentNames[1]] = <<"blade">>
        /\ outcomes[1].batch = "returned")
       => /\ addResult = OneAdded(componentNames[1])
          /\ destFs[BladePath(componentNames[1])] = New(1)

C23_Witness ==
    /\ SingleBladeAdded
    /\ componentNames = <<1>>
    /\ componentResult.added = <<Id(1, 1)>>
    /\ destFs[1] = New(1)
    /\ bpc = "returned"

(***************************************************************************)
(* Properties of applyFileBatch: the catch block and the order of phases   *)
(***************************************************************************)
\* the error of the step of the try block that failed
TriggeringError ==
    IF failedIn = "stage" THEN "write failed"
    ELSE IF failedIn = "backup" THEN "Failed to create backup"
    ELSE "move failed"

\* C24: when a step of applyFileBatch fails, the catch block runs to its end,
\* over every planned file and every recorded temp file, before
\* applyFileBatch raises, and the error raised is the triggering error, also
\* when a step of the catch block fails.
C24_RollbackCompletesOriginalError ==
    bpc = "raised" => ~rollbackFault /\ RaisedError = TriggeringError

\* the destinations of the first k planned files, in planned order
StagedPrefix(k) == [i \in 1..k |-> plannedFiles[i].destPath]

RECURSIVE BackedUpPrefix(_)
\* the destinations of those of the first k planned files that existed
\* before, in planned order
BackedUpPrefix(k) ==
    IF k = 0 THEN <<>>
    ELSE IF plannedFiles[k].existedBefore
         THEN Append(BackedUpPrefix(k - 1), plannedFiles[k].destPath)
         ELSE BackedUpPrefix(k - 1)

\* what has been done when the loop of a phase is at file k, or failed there
PhaseProgress(phase, k) ==
    CASE phase = "stage" ->
            /\ tempFiles = StagedPrefix(k - 1)
            /\ backupTargets = <<>>
            /\ moved = 0
      [] phase = "backup" ->
            /\ tempFiles = StagedPrefix(Len(plannedFiles))
            /\ backupTargets = BackedUpPrefix(k - 1)
            /\ moved = 0
      [] phase = "commit" ->
            /\ tempFiles = StagedPrefix(Len(plannedFiles))
            /\ backupTargets = BackedUpPrefix(Len(plannedFiles))
            /\ moved = k - 1
      [] OTHER -> TRUE

\* C25: every staging write is done before the first backup, every backup
\* before the first move, each phase goes through the planned files one at a
\* time in planned order, and at a failure what the phase has processed is a
\* prefix of the plan.
C25_PhasesOrderedPrefix ==
    /\ bpc \in {"stage", "backup", "commit"} => PhaseProgress(bpc, idx)
    /\ bpc \in {"stage", "backup"} => destFs = preFs
    /\ bpc \in {"cleanup", "returned"} =>
          PhaseProgress("commit", Len(plannedFiles) + 1)
    /\ failedIn # "none" => PhaseProgress(failedIn, failedAt)

C25_Witness ==
    /\ bpc = "rollback"
    /\ failedIn = "commit"
    /\ failedAt = 3
    /\ moved = 2
    /\ Len(tempFiles) = 3
    /\ Len(backupTargets) = 2

(***************************************************************************)
(* Properties of addComponent: a fetch that fails while planning           *)
(***************************************************************************)
FetchFileFailed == componentError = "fetchFile failed"

\* C27: when the fetch of a file fails while a component is planned, nothing
\* of the component is written: its batch never starts, and from the start
\* of the component to the moment addComponents has recorded the failure no
\* temp file, backup or destination changes, the files already planned
\* included.
C27_FetchFailureWritesNothing ==
    /\ [](FetchFileFailed =>
             /\ apc = "componentDone"
             /\ bpc = "idle"
             /\ tempFiles = <<>>
             /\ backupTargets = <<>>
             /\ destFs = preFs)
    /\ [][/\ (FetchFileFailed' /\ ~FetchFileFailed) =>
                 (apc = "plan" /\ UNCHANGED <<disk, plannedFiles>>)
          /\ apc = "plan" => UNCHANGED disk
          /\ FetchFileFailed =>
                 (UNCHANGED disk /\ apc' \in {"fetchComponent", "returned"})
         ]_vars

C27_Witness ==
    /\ FetchFileFailed
    /\ componentIndex = 2
    /\ Len(plannedFiles) = 1
    /\ Len(addResult.added) = 2

(***************************************************************************)
(* Properties of addComponent: the destinations of a batch                 *)
(***************************************************************************)
\* C28: in every batch addComponent builds, no two planned operations have
\* the same destination path (and so none share a temp path or a backup),
\* whatever the metadata of the component.
C28_PlannedDestsDistinct ==
    \A i \in 1..Len(plannedFiles) : \A j \in 1..Len(plannedFiles) :
        i # j => plannedFiles[i].destPath # plannedFiles[j].destPath

\* Files of different types of one component have different destinations.
PlannedDestsDistinctByType ==
    \A i \in 1..Len(plannedFiles) : \A j \in 1..Len(plannedFiles) :
        (i # j /\ plannedFiles[i].fileType # plannedFiles[j].fileType)
        => plannedFiles[i].destPath # plannedFiles[j].destPath

(***************************************************************************)
(* Properties of addComponents: the three lists                            *)
(***************************************************************************)
DistinctNames ==
    \A i \in 1..Len(componentNames) : \A j \in 1..Len(componentNames) :
        componentNames[i] = componentNames[j] => i = j

FailedIds(r) == {r.failed[i].name : i \in 1..Len(r.failed)}

ListsDisjoint(r) ==
    /\ Range(r.added) \cap Range(r.skipped) = {}
    /\ Range(r.added) \cap FailedIds(r) = {}
    /\ Range(r.skipped) \cap FailedIds(r) = {}

SkippedReported(i) ==
    \A k \in 1..Len(outcomes[i].skipped) :
        outcomes[i].skipped[k] \in Range(addResult.skipped)

\* C30: every file for which the user answered skip is in the skipped list of
\* the result addComponents returns, whatever happened afterwards to its
\* component.
C30_SkippedAlwaysReported ==
    apc = "returned" => \A i \in 1..Len(outcomes) : SkippedReported(i)

\* The same for the components whose addComponent returned, the batch having
\* failed or not.
SkippedReportedWhenReturned ==
    \A i \in 1..Len(outcomes) : outcomes[i].error = "none" => SkippedReported(i)

====
